---- MODULE Spec2Model ----
(***************************************************************************)
(* Model of the BookMyShow harvesting scripts.                             *)
(*                                                                         *)
(*   bms_rankings.py : worker pool, per-thread identities, retry loop,     *)
(*                     failure log, aggregation, leaderboard               *)
(*   bmshype.py      : worker pool over one module-global session, error   *)
(*                     counter, checkpoint file, process restart           *)
(*                                                                         *)
(* Strings on which the code computes (titles) are sequences of one-       *)
(* character strings; region names and codes are only compared and stay    *)
(* TLA+ strings.                                                           *)
(***************************************************************************)
EXTENDS Integers, Sequences, FiniteSets, TLC

VARIABLES
    \* ---- bms_rankings.py ----
    cities,            \* load_cities(): sequence of city objects
    endpoint,          \* per region code, what the remote endpoint may answer
    mainpc,            \* position of main()
    submitted,         \* number of futures submitted so far
    nthreads,          \* threads the executor has started
    workq,             \* executor work queue (task numbers)
    thr,               \* per thread: the task it runs, 0 when idle
    thread_local,      \* threading.local(): per slot, the identity attribute
    task,              \* per task: locals of fetch_movies_for_city, future state
    completed,         \* finished futures not yet yielded by as_completed
    nfolded,           \* futures main has taken from as_completed
    lock,              \* threading.Lock: 0 free, else the holding thread
    failures,          \* module-global failures list
    all_rankings,      \* main(): dict region -> ranked
    movie_points,      \* main(): defaultdict(int), in insertion order
    movie_city_count,  \* main(): defaultdict(set)
    output,            \* main(): the dict written to RANKING_FILE
    top_movies,        \* main(): the leaderboard
    \* ---- aggregation of one fixed set of results in two orders ----
    units,             \* the fixed per-unit results
    runA,              \* first run: accumulators and units folded so far
    runB,              \* second run
    \* ---- clean_title on its own ----
    tIn,               \* a title and a second one
    tOut,              \* clean_title of each
    tTwice,            \* clean_title applied twice to each
    tpc,
    \* ---- the leaderboard of one movie_points on its own ----
    bIn,               \* movie_points, in insertion order
    bOut,              \* top_movies
    bpc,
    \* ---- bmshype.py ----
    h_cities,              \* load_cities()
    h_file,                \* bms_movie_rankings.json: the entries written
    h_file_valid,          \* whether the file's text is complete JSON
    h_pc,                  \* position of main()
    h_existing_rankings,   \* main(): existing_rankings
    h_all_rankings,        \* module-global all_rankings
    h_pending_cities,      \* main(): pending_cities
    h_task,                \* per pending city: the call and its future
    h_completed,           \* finished futures not yet yielded
    h_nfolded,             \* futures main has taken
    h_lock,                \* module-global lock: 0 free, else the holding task
    h_error_count,         \* module-global error_count
    h_movie_points,        \* main(): movie_points
    h_movie_city_count,    \* main(): movie_city_count
    h_top_movies,          \* main(): top_movies
    h_restarts             \* ghost: times the process re-executed itself

rvars == <<cities, endpoint, mainpc, submitted, nthreads, workq, thr, thread_local, task,
           completed, nfolded, lock, failures, all_rankings, movie_points, movie_city_count,
           output, top_movies>>
avars == <<units, runA, runB>>
tvars == <<tIn, tOut, tTwice, tpc>>
bvars == <<bIn, bOut, bpc>>
hvars == <<h_cities, h_file, h_file_valid, h_pc, h_existing_rankings, h_all_rankings,
           h_pending_cities, h_task, h_completed, h_nfolded, h_lock,
           h_error_count, h_movie_points, h_movie_city_count, h_top_movies,
           h_restarts>>
vars == <<rvars, avars, tvars, bvars, hvars>>

(***************************************************************************)
(* Program constants                                                       *)
(***************************************************************************)
MAX_WORKERS == 4
RETRY_LIMIT == 3
RankCutoff == 8
PointsBase == 9
TopN == 20

(***************************************************************************)
(* Bounds of the model                                                     *)
(***************************************************************************)
MaxTitleLen == 4
MaxUnits == 2
MaxRestarts == 2
\* entries of a movie_points dict, and length of the pattern of their totals
MaxBoard == 22
MaxPattern == 3
\* MAX_ERRORS is 20 in bmshype.py (line 17); the runs explored have at most
\* three cities, and the threshold is scaled down with them
MAX_ERRORS == 2

(***************************************************************************)
(* Strings                                                                 *)
(***************************************************************************)
Alpha == <<"A", "l", "p", "h", "a">>
Beta == <<"B", "e", "t", "a">>
AlphaHindi == Alpha \o <<" ", "(", "H", "i", ")">>

None == "None"

IsSpace(c) == c = " "

RECURSIVE LastIndexOf(_, _, _)
\* greatest index <= k of character c in s, 0 if there is none
LastIndexOf(s, c, k) ==
    IF k = 0 THEN 0
    ELSE IF s[k] = c THEN k
    ELSE LastIndexOf(s, c, k - 1)

\* str.rsplit(sep, 1)[0]: the part before the last sep, or all of s
RSplitHead(s, sep) ==
    LET k == LastIndexOf(s, sep, Len(s))
    IN  IF k = 0 THEN s ELSE SubSeq(s, 1, k - 1)

RECURSIVE LStrip(_)
LStrip(s) ==
    IF s # <<>> /\ IsSpace(Head(s)) THEN LStrip(Tail(s)) ELSE s

RECURSIVE RStrip(_)
RStrip(s) ==
    IF s # <<>> /\ IsSpace(s[Len(s)]) THEN RStrip(SubSeq(s, 1, Len(s) - 1)) ELSE s

\* str.strip()
Strip(s) == RStrip(LStrip(s))

\* clean_title, lines 128-129 (bms_rankings.py) and 49-50 (bmshype.py)
clean_title(title) == Strip(RSplitHead(title, "("))

(***************************************************************************)
(* Inputs: cities, and what the endpoint answers                           *)
(***************************************************************************)
City(name, code) == [RegionName |-> name, RegionCode |-> code]

Hit(type, title) == [TYPE |-> type, TITLE |-> title]

\* nine MT hits: more than the eight ranks kept
LongHits ==
    <<Hit("MT", Alpha), Hit("MT", Beta), Hit("MT", Alpha), Hit("MT", Beta),
      Hit("MT", Alpha), Hit("MT", Beta), Hit("MT", Alpha), Hit("MT", Beta),
      Hit("MT", Alpha)>>

PayloadAB == [hits |-> <<Hit("MT", Alpha), Hit("MT", Beta)>>]

PayloadBA == [hits |-> <<Hit("MT", Beta), Hit("ET", Alpha), Hit("MT", Alpha)>>]

\* decoded JSON bodies the endpoint may send
Payloads ==
    { PayloadAB,
      PayloadBA,
      [hits |-> <<Hit("MT", AlphaHindi), Hit("MT", Alpha)>>],
      [hits |-> LongHits],
      [hits |-> <<>>],
      [took |-> "1ms"],
      [hits |-> <<Hit("ET", Alpha), [TYPE |-> "MT"], [TITLE |-> Beta]>>] }

NoData == [none |-> None]

\* what scraper.get does: status 0 stands for the call raising (timeout,
\* connection error); otherwise a response with a status and a body
Resp(status, json, data) == [status |-> status, json |-> json, data |-> data]

Outcomes ==
    {Resp(0, FALSE, NoData), Resp(403, FALSE, NoData), Resp(429, FALSE, NoData),
     Resp(500, FALSE, NoData), Resp(200, FALSE, NoData)}
    \cup {Resp(200, TRUE, d) : d \in Payloads}

FailingOutcomes == {o \in Outcomes : ~(o.status = 200 /\ o.json)}

AnyAnswer(cs) == [c \in {cs[k].RegionCode : k \in 1..Len(cs)} |-> Outcomes]

\* the runs explored: the cities loaded and the endpoint's behaviour. The
\* last one is three units of which A lists Alpha, Beta, B lists Beta, Alpha
\* and C is never answered with a payload.
Scenarios ==
    { [cities |-> cs, endpoint |-> AnyAnswer(cs)] :
        cs \in { <<>>,
                 <<City("A", "a1")>>,
                 <<City("A", "a1"), City("B", "b1")>>,
                 <<City("A", "a1"), City("A", "a2")>> } }
    \cup
    { [cities |-> <<City("A", "a1"), City("B", "b1"), City("C", "c1")>>,
       endpoint |-> [c \in {"a1", "b1", "c1"} |->
                       IF c = "a1" THEN {Resp(200, TRUE, PayloadAB)}
                       ELSE IF c = "b1" THEN {Resp(200, TRUE, PayloadBA)}
                       ELSE FailingOutcomes]] }

\* status 429 alone taken as a block signal
IsBlocked429(status) == status = 429

\* response.status_code in (403, 429), line 185
IsBlocked(status) == status \in {403, 429}

\* response.raise_for_status()
RaisesForStatus(status) == status >= 400 /\ status < 600

\* ghost: how an attempt went
Classify(out) ==
    IF out.status = 0 THEN "neterr"
    ELSE IF out.status \in {403, 429} THEN "blocked"
    ELSE IF RaisesForStatus(out.status) THEN "httperr"
    ELSE IF ~out.json THEN "notjson"
    ELSE "ok"

(***************************************************************************)
(* Parsing a payload, lines 194-201                                        *)
(***************************************************************************)
\* dict.get(key, default)
DictGet(d, key, default) == IF key \in DOMAIN d THEN d[key] ELSE default

RECURSIVE Movies(_)
\* [clean_title(hit["TITLE"]) for hit in hits if TYPE == "MT" and "TITLE" in hit]
Movies(hits) ==
    IF hits = <<>> THEN <<>>
    ELSE LET hit == Head(hits)
         IN  IF DictGet(hit, "TYPE", None) = "MT" /\ "TITLE" \in DOMAIN hit
             THEN <<clean_title(hit["TITLE"])>> \o Movies(Tail(hits))
             ELSE Movies(Tail(hits))

Min(a, b) == IF a < b THEN a ELSE b

\* f"rank{i+1}" for the 0-based position i
RankKey(i) == <<"rank", i + 1>>

\* int(rank_key.replace("rank", ""))
RankOf(key) == key[2]

\* {f"rank{i+1}": title for i, title in enumerate(movies[:8])}, in dict order
Ranked(movies) ==
    [j \in 1..Min(Len(movies), RankCutoff) |->
        [key |-> RankKey(j - 1), title |-> movies[j]]]

ParseRanked(data) == Ranked(Movies(DictGet(data, "hits", <<>>)))

(***************************************************************************)
(* Aggregation, lines 235-241 and 261                                      *)
(***************************************************************************)
EmptyDict == [k \in {} |-> None]

\* d[key] = value
DictPut(d, key, value) ==
    [k \in DOMAIN d \cup {key} |-> IF k = key THEN value ELSE d[k]]

NoAcc == [all_rankings |-> EmptyDict, movie_points |-> <<>>,
          movie_city_count |-> EmptyDict]

\* points = 9 - rank
PointsWrong(rank) == RankCutoff - rank

Points(rank) == PointsBase - rank

\* movie_points[title] = points: the total is overwritten
AddPointsAssign(mp, title, pts) ==
    IF \E k \in 1..Len(mp) : mp[k].title = title
    THEN [k \in 1..Len(mp) |->
            IF mp[k].title = title THEN [mp[k] EXCEPT !.points = pts] ELSE mp[k]]
    ELSE Append(mp, [title |-> title, points |-> pts])

\* movie_points[title] += points on a defaultdict(int): a new title goes last
AddPoints(mp, title, pts) ==
    IF \E k \in 1..Len(mp) : mp[k].title = title
    THEN [k \in 1..Len(mp) |->
            IF mp[k].title = title THEN [mp[k] EXCEPT !.points = @ + pts] ELSE mp[k]]
    ELSE Append(mp, [title |-> title, points |-> 0 + pts])

\* movie_city_count[title].add(region_name) on a defaultdict(set)
AddCity(mcc, title, region) ==
    DictPut(mcc, title, DictGet(mcc, title, {}) \cup {region})

RECURSIVE FoldItems(_, _, _, _)
\* the loop over ranked_movies.items() from item k on
FoldItems(acc, region, ranked, k) ==
    IF k > Len(ranked) THEN acc
    ELSE LET rank == RankOf(ranked[k].key)
             points == Points(rank)
             title == ranked[k].title
         IN  FoldItems([acc EXCEPT
                          !.movie_points = AddPoints(@, title, points),
                          !.movie_city_count = AddCity(@, title, region)],
                       region, ranked, k + 1)

\* the loop body without its "if ranked_movies"
FoldResultUnguarded(acc, region, ranked) ==
    FoldItems([acc EXCEPT !.all_rankings = DictPut(@, region, ranked)],
              region, ranked, 1)

\* the body of the as_completed loop for one (region_name, ranked_movies)
FoldResult(acc, region, ranked) ==
    IF ranked # <<>>
    THEN FoldItems([acc EXCEPT !.all_rankings = DictPut(@, region, ranked)],
                   region, ranked, 1)
    ELSE acc

RECURSIVE InsertDescUnstable(_, _)
RECURSIVE InsertDesc(_, _)
\* x goes before the entries with as many points
InsertDescUnstable(sorted, x) ==
    IF sorted = <<>> THEN <<x>>
    ELSE IF Head(sorted).points > x.points
         THEN <<Head(sorted)>> \o InsertDescUnstable(Tail(sorted), x)
         ELSE <<x>> \o sorted

\* x goes behind every entry with at least as many points (a stable sort)
InsertDesc(sorted, x) ==
    IF sorted = <<>> THEN <<x>>
    ELSE IF Head(sorted).points >= x.points
         THEN <<Head(sorted)>> \o InsertDesc(Tail(sorted), x)
         ELSE <<x>> \o sorted

RECURSIVE SortDesc(_, _)
\* sorted(items, key=points, reverse=True) of the first k items
SortDesc(items, k) ==
    IF k = 0 THEN <<>> ELSE InsertDesc(SortDesc(items, k - 1), items[k])

\* sorted(movie_points.items(), key=lambda x: x[1], reverse=True)[:20]
TopMovies(mp) ==
    LET sorted == SortDesc(mp, Len(mp))
    IN  SubSeq(sorted, 1, Min(TopN, Len(sorted)))

(***************************************************************************)
(* Identities, lines 78-121                                                *)
(***************************************************************************)
Threads == 1..MAX_WORKERS

NoIdentity == [owner |-> 0, gen |-> 0]

NoSlot == [identity |-> NoIdentity, gen |-> 0]

\* one slot for all threads: a module-global in place of threading.local()
ThreadLocalShared(t) == 1

\* thread_local = threading.local(): each thread sees its own attributes
ThreadLocal(t) == t

\* hasattr(thread_local, "identity")
HasIdentity(slot) == slot.identity # NoIdentity

\* reset_identity(), lines 119-121
reset_identity(slot) ==
    IF HasIdentity(slot) THEN [slot EXCEPT !.identity = NoIdentity] ELSE slot

\* get_identity() called by thread t, lines 114-117. Identity() may raise
\* (created = FALSE): the attribute then stays unset and the exception goes
\* to the caller. warm_session() swallows its own failures.
get_identity(t, slot, created) ==
    IF HasIdentity(slot)
    THEN [slot |-> slot, ident |-> slot.identity, raised |-> FALSE]
    ELSE IF created
    THEN LET new == [owner |-> t, gen |-> slot.gen + 1]
         IN  [slot |-> [identity |-> new, gen |-> slot.gen + 1],
              ident |-> new, raised |-> FALSE]
    ELSE [slot |-> slot, ident |-> NoIdentity, raised |-> TRUE]

(***************************************************************************)
(* bms_rankings.py: state                                                  *)
(***************************************************************************)
NewTask ==
    [pc |-> "new",            \* new, queued, attempt, lock, append, done
     attempt |-> 0,           \* the loop variable
     ident |-> NoIdentity,    \* the local ident
     ret |-> "none",          \* the future: none, value, raise
     ranked |-> <<>>,         \* the second component of the returned pair
     nreq |-> 0,              \* ghost: requests issued
     reqIdent |-> NoIdentity, \* ghost: identity of the last request
     reqBy |-> 0,             \* ghost: thread that issued it
     got |-> NoData,          \* ghost: body of the last response
     blocks |-> 0,            \* ghost: attempts answered 403/429
     resets |-> 0,            \* ghost: calls of reset_identity
     last |-> "none",         \* ghost: class of the last attempt
     slept |-> 0,             \* ghost: backoff slept after it, 0 if none
     foldedAt |-> 0]          \* ghost: position in the as_completed stream

NTasks == Len(cities)

InitRankings ==
    /\ \E sc \in Scenarios : cities = sc.cities /\ endpoint = sc.endpoint
    /\ mainpc = IF cities = <<>> THEN "report" ELSE "submit"
    /\ submitted = 0
    /\ nthreads = 0
    /\ workq = <<>>
    /\ thr = [t \in Threads |-> 0]
    /\ thread_local = [t \in Threads |-> NoSlot]
    /\ task = [i \in 1..Len(cities) |-> NewTask]
    /\ completed = <<>>
    /\ nfolded = 0
    /\ lock = 0
    /\ failures = <<>>
    /\ all_rankings = EmptyDict
    /\ movie_points = <<>>
    /\ movie_city_count = EmptyDict
    /\ output = None
    /\ top_movies = None

IdleRankings ==
    /\ cities = <<>>
    /\ endpoint = EmptyDict
    /\ mainpc = "off"
    /\ submitted = 0
    /\ nthreads = 0
    /\ workq = <<>>
    /\ thr = [t \in Threads |-> 0]
    /\ thread_local = [t \in Threads |-> NoSlot]
    /\ task = <<>>
    /\ completed = <<>>
    /\ nfolded = 0
    /\ lock = 0
    /\ failures = <<>>
    /\ all_rankings = EmptyDict
    /\ movie_points = <<>>
    /\ movie_city_count = EmptyDict
    /\ output = None
    /\ top_movies = None

(***************************************************************************)
(* bms_rankings.py: main(), lines 217-261                                  *)
(***************************************************************************)
\* executor.submit(fetch_movies_for_city, city, i+1, total), lines 228-231:
\* the work item is queued; a thread is started when none is idle and the
\* pool is not full
Submit ==
    /\ mainpc = "submit"
    /\ LET i == submitted + 1
       IN  /\ submitted' = i
           /\ task' = [task EXCEPT ![i].pc = "queued"]
           /\ workq' = Append(workq, i)
           /\ nthreads' = IF /\ \A t \in 1..nthreads : thr[t] # 0
                             /\ nthreads < MAX_WORKERS
                          THEN nthreads + 1 ELSE nthreads
           /\ mainpc' = IF i = NTasks THEN "collect" ELSE "submit"
    /\ UNCHANGED <<avars, tvars, bvars, hvars, cities, endpoint, thr, thread_local, completed, nfolded, lock, failures,
                   all_rankings, movie_points, movie_city_count, output,
                   top_movies>>

\* one turn of "for future in as_completed(futures)", lines 233-241.
\* future.result() re-raises what the call raised: main leaves the loop and
\* the with block, and ends with that exception.
Collect ==
    /\ mainpc = "collect"
    /\ completed # <<>>
    /\ LET i == Head(completed)
           acc == FoldResult([all_rankings |-> all_rankings,
                              movie_points |-> movie_points,
                              movie_city_count |-> movie_city_count],
                             cities[i].RegionName, task[i].ranked)
       IN  IF task[i].ret = "raise"
           THEN /\ mainpc' = "crashed"
                /\ UNCHANGED <<nfolded, all_rankings, movie_points, movie_city_count>>
           ELSE /\ nfolded' = nfolded + 1
                /\ all_rankings' = acc.all_rankings
                /\ movie_points' = acc.movie_points
                /\ movie_city_count' = acc.movie_city_count
                /\ mainpc' = IF nfolded + 1 = NTasks THEN "report" ELSE "collect"
    /\ completed' = Tail(completed)
    /\ task' = [task EXCEPT ![Head(completed)].foldedAt = nfolded + 1]
    /\ UNCHANGED <<avars, tvars, bvars, hvars, cities, endpoint, submitted, nthreads, workq,
                   thr, thread_local, lock, failures, output, top_movies>>

\* lines 244-261: the output dict and the leaderboard
Report ==
    /\ mainpc = "report"
    /\ output' = [total_cities |-> NTasks,
                  success_cities |-> Cardinality(DOMAIN all_rankings),
                  failed_cities |-> Len(failures),
                  rankings |-> all_rankings]
    /\ top_movies' = TopMovies(movie_points)
    /\ mainpc' = "done"
    /\ UNCHANGED <<avars, tvars, bvars, hvars, cities, endpoint, submitted, nthreads, workq, thr, thread_local, task,
                   completed, nfolded, lock, failures, all_rankings, movie_points,
                   movie_city_count>>

(***************************************************************************)
(* bms_rankings.py: fetch_movies_for_city, lines 172-214                   *)
(***************************************************************************)
\* a loop that takes one turn more
RangeExhaustedLate(attempt) == attempt > RETRY_LIMIT

\* "for attempt in range(RETRY_LIMIT)", line 180: no value is left
RangeExhausted(attempt) == attempt >= RETRY_LIMIT

\* "time.sleep(2 ** attempt)", line 188: the argument
Backoff(attempt) == 2 ^ attempt

\* a lock that never blocks
LockFreeAlways(l) == TRUE

\* "with lock:", line 206: threading.Lock is acquired only when free
LockFree(l) == l = 0

\* the future of task i gets its outcome
Finished(tk, ret, ranked) ==
    [tk EXCEPT !.pc = "done", !.ret = ret, !.ranked = ranked]

\* A pool thread takes the next work item and runs lines 173-178: the first
\* get_identity() stands outside the try.
StartTask(t) ==
    /\ t <= nthreads
    /\ thr[t] = 0
    /\ workq # <<>>
    /\ LET i == Head(workq)
           slot == ThreadLocal(t)
       IN  \E created \in BOOLEAN :
             LET g == get_identity(t, thread_local[slot], created)
             IN  /\ thread_local' = [thread_local EXCEPT ![slot] = g.slot]
                 /\ IF g.raised
                    THEN /\ task' = [task EXCEPT ![i] = Finished(@, "raise", <<>>)]
                         /\ completed' = Append(completed, i)
                         /\ thr' = thr
                    ELSE /\ task' = [task EXCEPT ![i].pc = "attempt",
                                                 ![i].ident = g.ident]
                         /\ completed' = completed
                         /\ thr' = [thr EXCEPT ![t] = i]
    /\ workq' = Tail(workq)
    /\ UNCHANGED <<avars, tvars, bvars, hvars, cities, endpoint, mainpc, submitted, nthreads, nfolded, lock, failures,
                   all_rankings, movie_points, movie_city_count, output,
                   top_movies>>

\* One turn of the loop "for attempt in range(RETRY_LIMIT)", lines 180-212,
\* up to the with statement, and the return of line 214 when the loop ends.
Attempt(t) ==
    /\ thr[t] # 0
    /\ task[thr[t]].pc = "attempt"
    /\ \E out \in endpoint[cities[thr[t]].RegionCode], created \in BOOLEAN :
         LET i == thr[t]
             tk == task[i]
             a == tk.attempt
             slot == ThreadLocal(t)
             blocked == IsBlocked(out.status)
             g == get_identity(t, reset_identity(thread_local[slot]), created)
             raised == \/ out.status = 0
                       \/ blocked /\ g.raised
                       \/ ~blocked /\ RaisesForStatus(out.status)
                       \/ ~blocked /\ ~out.json
             sent == [tk EXCEPT !.nreq = @ + 1, !.reqIdent = tk.ident,
                                !.reqBy = t, !.last = Classify(out),
                                !.got = out.data, !.slept = 0,
                                !.blocks = IF Classify(out) = "blocked"
                                           THEN @ + 1 ELSE @,
                                !.resets = IF blocked THEN @ + 1 ELSE @]
         IN  /\ thread_local' = IF blocked
                                THEN [thread_local EXCEPT ![slot] = g.slot]
                                ELSE thread_local
             /\ IF raised
                THEN \* except Exception, lines 204-212
                     /\ task' = [task EXCEPT ![i] =
                                   IF a = RETRY_LIMIT - 1
                                   THEN [sent EXCEPT !.pc = "lock"]
                                   ELSE [sent EXCEPT !.attempt = a + 1]]
                     /\ UNCHANGED <<completed, thr>>
                ELSE IF blocked
                THEN \* lines 186-189; after the last turn, line 214
                     IF RangeExhausted(a + 1)
                     THEN /\ task' = [task EXCEPT ![i] =
                                        Finished([sent EXCEPT !.ident = g.ident,
                                                              !.slept = Backoff(a),
                                                              !.attempt = a + 1],
                                                 "value", <<>>)]
                          /\ completed' = Append(completed, i)
                          /\ thr' = [thr EXCEPT ![t] = 0]
                     ELSE /\ task' = [task EXCEPT ![i] =
                                        [sent EXCEPT !.ident = g.ident,
                                                     !.slept = Backoff(a),
                                                     !.attempt = a + 1]]
                          /\ UNCHANGED <<completed, thr>>
                ELSE \* lines 191-202
                     /\ task' = [task EXCEPT ![i] =
                                   Finished(sent, "value", ParseRanked(out.data))]
                     /\ completed' = Append(completed, i)
                     /\ thr' = [thr EXCEPT ![t] = 0]
    /\ UNCHANGED <<avars, tvars, bvars, hvars, cities, endpoint, mainpc, submitted, nthreads, workq, nfolded, lock,
                   failures, all_rankings, movie_points, movie_city_count, output,
                   top_movies>>

\* "with lock:", line 206
AcquireLock(t) ==
    /\ thr[t] # 0
    /\ task[thr[t]].pc = "lock"
    /\ LockFree(lock)
    /\ lock' = t
    /\ task' = [task EXCEPT ![thr[t]].pc = "append"]
    /\ UNCHANGED <<avars, tvars, bvars, hvars, cities, endpoint, mainpc, submitted, nthreads, workq, thr, thread_local,
                   completed, nfolded, failures, all_rankings, movie_points,
                   movie_city_count, output, top_movies>>

\* failures.append(...), the end of the with block and the return, lines 207-212
AppendFailure(t) ==
    /\ thr[t] # 0
    /\ task[thr[t]].pc = "append"
    /\ LET i == thr[t]
       IN  /\ failures' = Append(failures,
                                 [region |-> cities[i].RegionName,
                                  code |-> cities[i].RegionCode,
                                  error |-> task[i].last])
           /\ task' = [task EXCEPT ![i] = Finished(@, "value", <<>>)]
           /\ completed' = Append(completed, i)
    /\ lock' = 0
    /\ thr' = [thr EXCEPT ![t] = 0]
    /\ UNCHANGED <<avars, tvars, bvars, hvars, cities, endpoint, mainpc, submitted, nthreads, workq, thread_local,
                   nfolded, all_rankings, movie_points, movie_city_count, output,
                   top_movies>>

Next ==
    \/ Submit
    \/ Collect
    \/ Report
    \/ \E t \in Threads : StartTask(t)
    \/ \E t \in Threads : Attempt(t)
    \/ \E t \in Threads : AcquireLock(t)
    \/ \E t \in Threads : AppendFailure(t)

(***************************************************************************)
(* The fold of one fixed set of unit results in two completion orders      *)
(***************************************************************************)
UnitRegions == {"A", "B"}

UnitRankings ==
    {Ranked(<<Alpha, Beta>>), Ranked(<<Beta, Alpha>>), Ranked(<<Beta>>), <<>>}

\* what fetch_movies_for_city returns: (region_name, ranked)
UnitResults == {[region |-> r, ranked |-> k] : r \in UnitRegions, k \in UnitRankings}

RECURSIVE SeqsUpTo(_, _)
\* the sequences over S of length at most n
SeqsUpTo(S, n) ==
    IF n = 0 THEN {<<>>}
    ELSE LET shorter == SeqsUpTo(S, n - 1)
         IN  shorter \cup {Append(q, x) : q \in {p \in shorter : Len(p) = n - 1}, x \in S}

NewRun == [acc |-> NoAcc, order |-> <<>>]

InRun(run, k) == \E j \in 1..Len(run.order) : run.order[j] = k

\* as_completed hands unit k to the loop body
FoldUnit(run, k) ==
    [acc |-> FoldResult(run.acc, units[k].region, units[k].ranked),
     order |-> Append(run.order, k)]

RunDone(run) == Len(run.order) = Len(units)

InitAgg ==
    /\ units \in SeqsUpTo(UnitResults, MaxUnits)
    /\ runA = NewRun
    /\ runB = NewRun

IdleAgg == units = <<>> /\ runA = None /\ runB = None

FoldA(k) ==
    /\ ~InRun(runA, k)
    /\ runA' = FoldUnit(runA, k)
    /\ UNCHANGED <<units, runB, rvars, tvars, bvars, hvars>>

FoldB(k) ==
    /\ ~InRun(runB, k)
    /\ runB' = FoldUnit(runB, k)
    /\ UNCHANGED <<units, runA, rvars, tvars, bvars, hvars>>

(***************************************************************************)
(* clean_title applied to titles                                           *)
(***************************************************************************)
TitleChars == {"a", " ", "(", ")"}

Titles == SeqsUpTo(TitleChars, MaxTitleLen)

NoParen(q) == \A k \in 1..Len(q) : q[k] \notin {"(", ")"}

\* t is base followed by one parenthetical qualifier
QualifiedFrom(t, base) ==
    /\ Len(t) >= Len(base) + 2
    /\ SubSeq(t, 1, Len(base)) = base
    /\ t[Len(base) + 1] = "("
    /\ t[Len(t)] = ")"
    /\ NoParen(SubSeq(t, Len(base) + 2, Len(t) - 1))

\* t and u differ only in their trailing parenthetical qualifier
SameButQualifier(t, u) ==
    \E n \in 0..Len(t) : QualifiedFrom(t, SubSeq(t, 1, n)) /\ QualifiedFrom(u, SubSeq(t, 1, n))

InitTitle ==
    /\ tIn \in {<<t, u>> : t \in Titles, u \in Titles}
    /\ tIn[1] = tIn[2] \/ SameButQualifier(tIn[1], tIn[2])
    /\ tOut = None
    /\ tTwice = None
    /\ tpc = "in"

IdleTitle == tIn = None /\ tOut = None /\ tTwice = None /\ tpc = "off"

\* the key under which a title is aggregated
CleanOnce ==
    /\ tpc = "in"
    /\ tOut' = <<clean_title(tIn[1]), clean_title(tIn[2])>>
    /\ tpc' = "once"
    /\ UNCHANGED <<tIn, tTwice, rvars, avars, hvars, bvars>>

\* the key normalised again
CleanTwice ==
    /\ tpc = "once"
    /\ tTwice' = <<clean_title(tOut[1]), clean_title(tOut[2])>>
    /\ tpc' = "twice"
    /\ UNCHANGED <<tIn, tOut, rvars, avars, hvars, bvars>>

(***************************************************************************)
(* The leaderboard, lines 261 (bms_rankings.py) and 158 (bmshype.py), on a *)
(* movie_points dict of any size. The dict's keys are distinct titles,     *)
(* written <<"M", k>> for the k-th key inserted.                           *)
(***************************************************************************)
PointValues == {7, 8, 15}

\* the point totals repeat a short pattern, which puts ties anywhere
BoardFrom(pattern, n) ==
    [k \in 1..n |-> [title |-> <<"M", k>>,
                     points |-> pattern[((k - 1) % Len(pattern)) + 1]]]

BoardInputs ==
    {BoardFrom(pattern, n) :
        pattern \in SeqsUpTo(PointValues, MaxPattern) \ {<<>>}, n \in 0..MaxBoard}

InitBoard ==
    /\ bIn \in BoardInputs
    /\ bOut = None
    /\ bpc = "in"

IdleBoard == bIn = None /\ bOut = None /\ bpc = "off"

\* top_movies = sorted(movie_points.items(), ...)[:20]
BuildBoard ==
    /\ bpc = "in"
    /\ bOut' = TopMovies(bIn)
    /\ bpc' = "built"
    /\ UNCHANGED <<bIn, rvars, avars, tvars, hvars>>

(***************************************************************************)
(* bmshype.py                                                              *)
(* Dicts that are iterated or written to the file keep their insertion     *)
(* order: they are sequences of key/value pairs.                           *)
(***************************************************************************)
OHas(d, key) == \E k \in 1..Len(d) : d[k].key = key

OKeys(d) == {d[k].key : k \in 1..Len(d)}

\* d[key] = value: an existing key keeps its place, a new one goes last
OPut(d, key, value) ==
    IF OHas(d, key)
    THEN [k \in 1..Len(d) |-> IF d[k].key = key THEN [key |-> key, value |-> value] ELSE d[k]]
    ELSE Append(d, [key |-> key, value |-> value])

RECURSIVE OUpdate(_, _, _)
\* for region, data in src.items(): d[region] = data, from item k on
OUpdate(d, src, k) ==
    IF k > Len(src) THEN d
    ELSE OUpdate(OPut(d, src[k].key, src[k].value), src, k + 1)

\* scraper = cloudscraper.create_scraper(), line 14: one object per process
scraper == "scraper"

HCityLists ==
    { <<City("A", "a1")>>,
      <<City("A", "a1"), City("B", "b1")>>,
      <<City("A", "a1"), City("B", "b1"), City("C", "c1")>>,
      <<City("A", "a1"), City("B", "b1"), City("C", "c1"), City("D", "d1")>> }

\* what bms_movie_rankings.json holds when the program is first started
HFiles == { <<>>, <<[key |-> "A", value |-> Ranked(<<Alpha, Beta>>)]>> }

HOutcomes ==
    {Resp(0, FALSE, NoData), Resp(403, FALSE, NoData), Resp(429, FALSE, NoData),
     Resp(200, FALSE, NoData), Resp(200, TRUE, PayloadAB), Resp(200, TRUE, PayloadBA),
     Resp(200, TRUE, [hits |-> <<>>])}

\* the process image right after (re)start, before main runs
HFresh ==
    /\ h_pc' = "start"
    /\ h_existing_rankings' = <<>>
    /\ h_all_rankings' = <<>>
    /\ h_pending_cities' = <<>>
    /\ h_task' = <<>>
    /\ h_completed' = <<>>
    /\ h_nfolded' = 0
    /\ h_lock' = 0
    /\ h_error_count' = 0
    /\ h_movie_points' = <<>>
    /\ h_movie_city_count' = EmptyDict
    /\ h_top_movies' = None

InitHype ==
    /\ h_cities \in HCityLists
    /\ h_file \in HFiles
    /\ h_file_valid = TRUE
    /\ h_pc = "start"
    /\ h_existing_rankings = <<>>
    /\ h_all_rankings = <<>>
    /\ h_pending_cities = <<>>
    /\ h_task = <<>>
    /\ h_completed = <<>>
    /\ h_nfolded = 0
    /\ h_lock = 0
    /\ h_error_count = 0
    /\ h_movie_points = <<>>
    /\ h_movie_city_count = EmptyDict
    /\ h_top_movies = None
    /\ h_restarts = 0

IdleHype ==
    /\ h_cities = <<>>
    /\ h_file = <<>>
    /\ h_file_valid = TRUE
    /\ h_pc = "off"
    /\ h_existing_rankings = <<>>
    /\ h_all_rankings = <<>>
    /\ h_pending_cities = <<>>
    /\ h_task = <<>>
    /\ h_completed = <<>>
    /\ h_nfolded = 0
    /\ h_lock = 0
    /\ h_error_count = 0
    /\ h_movie_points = <<>>
    /\ h_movie_city_count = EmptyDict
    /\ h_top_movies = None
    /\ h_restarts = 0

RECURSIVE PendingOf(_, _)
\* [city for city in cities if city.get("RegionName") not in existing_rankings]
PendingOf(cs, existing) ==
    IF cs = <<>> THEN <<>>
    ELSE IF OHas(existing, Head(cs).RegionName)
         THEN PendingOf(Tail(cs), existing)
         ELSE <<Head(cs)>> \o PendingOf(Tail(cs), existing)

\* main(), lines 112-129: load, filter, submit. The pool has 20 workers,
\* more than the pending cities of any run explored: every call has a thread.
HStart ==
    /\ h_pc = "start"
    /\ h_file_valid
    /\ LET pending == PendingOf(h_cities, h_file)
       IN  /\ h_existing_rankings' = h_file
           /\ h_all_rankings' = h_file
           /\ h_pending_cities' = pending
           /\ h_task' = [i \in 1..Len(pending) |->
                           [pc |-> "queued", ret |-> "none", ranked |-> <<>>,
                            session |-> None, dump |-> <<>>]]
           /\ h_pc' = IF pending = <<>> THEN "merge" ELSE "collect"
    /\ h_movie_points' = <<>>
    /\ h_movie_city_count' = EmptyDict
    /\ UNCHANGED <<h_cities, h_file, h_file_valid, h_completed, h_nfolded, h_lock, h_error_count,
                   h_top_movies, h_restarts, rvars, avars, tvars, bvars>>

\* fetch_movies_for_city, lines 57-65: the request goes out through the
\* module-global scraper with the module-global headers
HSend(i) ==
    /\ h_pc \in {"collect", "merge", "done", "crashed"}
    /\ i \in 1..Len(h_task)
    /\ h_task[i].pc = "queued"
    /\ h_task' = [h_task EXCEPT ![i].pc = "inflight", ![i].session = scraper]
    /\ UNCHANGED <<h_cities, h_file, h_file_valid, h_pc, h_existing_rankings, h_all_rankings,
                   h_pending_cities, h_completed, h_nfolded, h_lock, h_error_count,
                   h_movie_points, h_movie_city_count, h_top_movies, h_restarts,
                   rvars, avars, tvars, bvars>>

\* lines 65-82: the answer arrives; 429 raises "Rate limited", other error
\* statuses raise in raise_for_status, a body that is no JSON in json()
HRecv(i) ==
    /\ i \in 1..Len(h_task)
    /\ h_task[i].pc = "inflight"
    /\ \E out \in HOutcomes :
         IF \/ out.status = 0
            \/ out.status = 429
            \/ RaisesForStatus(out.status)
            \/ ~out.json
         THEN /\ h_task' = [h_task EXCEPT ![i].pc = "lock"]
              /\ h_completed' = h_completed
         ELSE /\ h_task' = [h_task EXCEPT ![i].pc = "done", ![i].ret = "value",
                                          ![i].ranked = ParseRanked(out.data)]
              /\ h_completed' = Append(h_completed, i)
    /\ UNCHANGED <<h_cities, h_file, h_file_valid, h_pc, h_existing_rankings, h_all_rankings,
                   h_pending_cities, h_nfolded, h_lock, h_error_count,
                   h_movie_points, h_movie_city_count, h_top_movies, h_restarts,
                   rvars, avars, tvars, bvars>>

\* "with lock:", line 85
HAcquire(i) ==
    /\ i \in 1..Len(h_task)
    /\ h_task[i].pc = "lock"
    /\ h_lock = 0
    /\ h_lock' = i
    /\ h_task' = [h_task EXCEPT ![i].pc = "handle"]
    /\ UNCHANGED <<h_cities, h_file, h_file_valid, h_pc, h_existing_rankings, h_all_rankings,
                   h_pending_cities, h_completed, h_nfolded, h_error_count,
                   h_movie_points, h_movie_city_count, h_top_movies, h_restarts,
                   rvars, avars, tvars, bvars>>

\* lines 86-106 without the restart: count the error, return (region, {})
HCountError(i) ==
    /\ i \in 1..Len(h_task)
    /\ h_task[i].pc = "handle"
    /\ h_error_count + 1 < MAX_ERRORS
    /\ h_error_count' = h_error_count + 1
    /\ h_lock' = 0
    /\ h_task' = [h_task EXCEPT ![i].pc = "done", ![i].ret = "value"]
    /\ h_completed' = Append(h_completed, i)
    /\ UNCHANGED <<h_cities, h_file, h_file_valid, h_pc, h_existing_rankings, h_all_rankings,
                   h_pending_cities, h_nfolded, h_movie_points, h_movie_city_count,
                   h_top_movies, h_restarts, rvars, avars, tvars, bvars>>

\* lines 86-101 with error_count reaching MAX_ERRORS: the file is read
\* again, its rankings are put into all_rankings, the file is opened for
\* writing and json.dump starts to walk all_rankings. dump is the dict as
\* the walk finds it.
HDumpBegin(i) ==
    /\ i \in 1..Len(h_task)
    /\ h_task[i].pc = "handle"
    /\ h_error_count + 1 >= MAX_ERRORS
    /\ h_file_valid
    /\ h_error_count' = h_error_count + 1
    /\ h_all_rankings' = OUpdate(h_all_rankings, h_file, 1)
    /\ h_task' = [h_task EXCEPT ![i].pc = "dump",
                                ![i].dump = OUpdate(h_all_rankings, h_file, 1)]
    /\ UNCHANGED <<h_cities, h_file, h_file_valid, h_pc, h_existing_rankings,
                   h_pending_cities, h_completed, h_nfolded, h_lock,
                   h_movie_points, h_movie_city_count, h_top_movies, h_restarts,
                   rvars, avars, tvars, bvars>>

\* lines 100-104: json.dump has walked all of all_rankings, the file is
\* closed, and os.execv replaces the process. h_restarts counts the
\* restarts up to MaxRestarts and stays there: the program keeps no such
\* count.
HRestart(i) ==
    /\ i \in 1..Len(h_task)
    /\ h_task[i].pc = "dump"
    /\ h_file' = h_task[i].dump
    /\ h_file_valid' = TRUE
    /\ h_restarts' = Min(h_restarts + 1, MaxRestarts)
    /\ HFresh
    /\ UNCHANGED <<h_cities, rvars, avars, tvars, bvars>>

\* lines 100-101 while main, which does not take the lock, has put a new
\* region into all_rankings (line 134): the walk of the dict raises
\* RuntimeError (dictionary changed size during iteration). The file keeps
\* the n entries written so far and is no complete JSON text; the exception
\* leaves the handler and the call.
HDumpFails(i) ==
    /\ i \in 1..Len(h_task)
    /\ h_task[i].pc = "dump"
    /\ Len(h_all_rankings) > Len(h_task[i].dump)
    /\ \E n \in 0..Len(h_task[i].dump) :
         h_file' = SubSeq(h_task[i].dump, 1, n)
    /\ h_file_valid' = FALSE
    /\ h_lock' = 0
    /\ h_task' = [h_task EXCEPT ![i].pc = "done", ![i].ret = "raise"]
    /\ h_completed' = Append(h_completed, i)
    /\ UNCHANGED <<h_cities, h_pc, h_existing_rankings, h_all_rankings,
                   h_pending_cities, h_nfolded, h_error_count,
                   h_movie_points, h_movie_city_count, h_top_movies, h_restarts,
                   rvars, avars, tvars, bvars>>

\* lines 86-93 when the file is no complete JSON text: json.load raises in
\* load_existing_rankings (line 35) and the exception leaves the call
HLoadFails(i) ==
    /\ i \in 1..Len(h_task)
    /\ h_task[i].pc = "handle"
    /\ h_error_count + 1 >= MAX_ERRORS
    /\ ~h_file_valid
    /\ h_error_count' = h_error_count + 1
    /\ h_lock' = 0
    /\ h_task' = [h_task EXCEPT ![i].pc = "done", ![i].ret = "raise"]
    /\ h_completed' = Append(h_completed, i)
    /\ UNCHANGED <<h_cities, h_file, h_file_valid, h_pc, h_existing_rankings,
                   h_all_rankings, h_pending_cities, h_nfolded,
                   h_movie_points, h_movie_city_count, h_top_movies, h_restarts,
                   rvars, avars, tvars, bvars>>

\* one turn of the as_completed loop, lines 131-143; future.result()
\* raises what the call raised, which ends main
HCollect ==
    /\ h_pc = "collect"
    /\ h_completed # <<>>
    /\ LET i == Head(h_completed)
           region == h_pending_cities[i].RegionName
           ranked == h_task[i].ranked
           acc == FoldItems([all_rankings |-> EmptyDict,
                             movie_points |-> h_movie_points,
                             movie_city_count |-> h_movie_city_count],
                            region, ranked, 1)
       IN  IF h_task[i].ret = "raise"
           THEN /\ h_pc' = "crashed"
                /\ UNCHANGED <<h_all_rankings, h_movie_points, h_movie_city_count>>
           ELSE /\ h_all_rankings' = IF ranked # <<>>
                                     THEN OPut(h_all_rankings, region, ranked)
                                     ELSE h_all_rankings
                /\ h_movie_points' = acc.movie_points
                /\ h_movie_city_count' = acc.movie_city_count
                /\ h_pc' = IF h_nfolded + 1 = Len(h_pending_cities)
                           THEN "merge" ELSE "collect"
    /\ h_completed' = Tail(h_completed)
    /\ h_nfolded' = h_nfolded + 1
    /\ UNCHANGED <<h_cities, h_file, h_file_valid, h_existing_rankings, h_pending_cities, h_task,
                   h_lock, h_error_count, h_top_movies, h_restarts,
                   rvars, avars, tvars, bvars>>

RECURSIVE FoldExisting(_, _, _)
\* for region_name, ranked_movies in existing_rankings.items(), lines 145-153
FoldExisting(acc, existing, k) ==
    IF k > Len(existing) THEN acc
    ELSE FoldExisting(FoldItems(acc, existing[k].key, existing[k].value, 1),
                      existing, k + 1)

\* lines 145-158: the checkpointed rankings are folded, the file is written,
\* the leaderboard is sorted
HMerge ==
    /\ h_pc = "merge"
    /\ LET acc == FoldExisting([all_rankings |-> EmptyDict,
                                movie_points |-> h_movie_points,
                                movie_city_count |-> h_movie_city_count],
                               h_existing_rankings, 1)
       IN  /\ h_movie_points' = acc.movie_points
           /\ h_movie_city_count' = acc.movie_city_count
           /\ h_top_movies' = TopMovies(acc.movie_points)
    /\ h_file' = h_all_rankings
    /\ h_file_valid' = TRUE
    /\ h_pc' = "done"
    /\ UNCHANGED <<h_cities, h_existing_rankings, h_all_rankings, h_pending_cities,
                   h_task, h_completed, h_nfolded, h_lock, h_error_count, h_restarts,
                   rvars, avars, tvars, bvars>>

(***************************************************************************)
(* Specifications                                                          *)
(***************************************************************************)
Init == InitRankings /\ IdleAgg /\ IdleTitle /\ IdleHype /\ IdleBoard

Spec == Init /\ [][Next]_vars

InitA == IdleRankings /\ InitAgg /\ IdleTitle /\ IdleHype /\ IdleBoard

NextAgg ==
    \/ \E k \in 1..Len(units) : FoldA(k)
    \/ \E k \in 1..Len(units) : FoldB(k)

SpecAgg == InitA /\ [][NextAgg]_vars

InitT == IdleRankings /\ IdleAgg /\ InitTitle /\ IdleHype /\ IdleBoard

NextTitle == CleanOnce \/ CleanTwice

SpecTitle == InitT /\ [][NextTitle]_vars

InitH == IdleRankings /\ IdleAgg /\ IdleTitle /\ InitHype /\ IdleBoard

NextHype ==
    \/ HStart
    \/ HCollect
    \/ HMerge
    \/ \E i \in 1..Len(h_task) : HSend(i)
    \/ \E i \in 1..Len(h_task) : HRecv(i)
    \/ \E i \in 1..Len(h_task) : HAcquire(i)
    \/ \E i \in 1..Len(h_task) : HCountError(i)
    \/ \E i \in 1..Len(h_task) : HDumpBegin(i)
    \/ \E i \in 1..Len(h_task) : HRestart(i)
    \/ \E i \in 1..Len(h_task) : HDumpFails(i)
    \/ \E i \in 1..Len(h_task) : HLoadFails(i)

SpecHype == InitH /\ [][NextHype]_vars

InitB == IdleRankings /\ IdleAgg /\ IdleTitle /\ IdleHype /\ InitBoard

NextBoard == BuildBoard

SpecBoard == InitB /\ [][NextBoard]_vars

\* every call of bmshype.py that the pool can hold
HTaskIds == UNION {DOMAIN cs : cs \in HCityLists}

\* fair scheduling: main and every pool thread take the step they are at
HypeFairness ==
    /\ WF_vars(HStart)
    /\ WF_vars(HCollect)
    /\ WF_vars(HMerge)
    /\ \A i \in HTaskIds :
         /\ WF_vars(HSend(i))
         /\ WF_vars(HRecv(i))
         /\ WF_vars(HAcquire(i))
         /\ WF_vars(HCountError(i))
         /\ WF_vars(HDumpBegin(i))
         /\ WF_vars(HRestart(i))
         /\ WF_vars(HLoadFails(i))

SpecHypeFair == InitH /\ [][NextHype]_vars /\ HypeFairness

(***************************************************************************)
(* Properties of bms_rankings.py                                           *)
(***************************************************************************)
Tasks == 1..NTasks

\* the failure records of task i (region codes are distinct in every run)
FailuresOf(i) == {k \in 1..Len(failures) : failures[k].code = cities[i].RegionCode}

Returned(i) == task[i].pc = "done" /\ task[i].ret = "value"

\* task i has used every attempt and none succeeded
Exhausted(i) ==
    task[i].pc = "done" /\ task[i].nreq = RETRY_LIMIT /\ task[i].last # "ok"

\* C1: a unit that used all RETRY_LIMIT attempts without a success, whatever
\* the mix of blocked and raising attempts, has returned an empty result and
\* has exactly one failure record.
C1_ExhaustedLeavesOneFailure ==
    \A i \in Tasks :
        Exhausted(i) =>
            /\ Returned(i)
            /\ task[i].ranked = <<>>
            /\ Cardinality(FailuresOf(i)) = 1

\* C2: at the end of main, failed_cities + success_cities = total_cities.
C2_CountsAddUp ==
    mainpc = "done" =>
        output.failed_cities + output.success_cities = output.total_cities

\* the endpoint blocked the first two attempts of task i and sent a valid
\* payload on the third
BlockedTwiceThenOk(i) ==
    /\ task[i].pc = "done"
    /\ task[i].nreq = 3
    /\ task[i].blocks = 2
    /\ task[i].last = "ok"

C5_NoFaultEscapes ==
    /\ \A i \in Tasks : task[i].ret # "raise"
    /\ mainpc # "crashed"

\* C6: every request is issued with an identity that the issuing thread
\* created itself, so no identity is used by two threads.
C6_IdentityNeverShared ==
    /\ \A i \in Tasks :
          task[i].nreq > 0 =>
              /\ task[i].reqIdent # NoIdentity
              /\ task[i].reqIdent.owner = task[i].reqBy
    /\ \A i, j \in Tasks :
          (task[i].nreq > 0 /\ task[j].nreq > 0
              /\ task[i].reqIdent = task[j].reqIdent)
          => task[i].reqBy = task[j].reqBy
    /\ \A t \in Threads :
          thr[t] # 0 => task[thr[t]].ident.owner = t

\* two threads have issued requests, one of them after a reset
C6_Witness ==
    \E i, j \in Tasks :
        /\ task[i].nreq > 1 /\ task[i].resets > 0
        /\ task[j].nreq > 0
        /\ task[i].reqBy # task[j].reqBy

RECURSIVE SumOf(_, _)
\* the sum of f over the finite set S
SumOf(f, S) ==
    IF S = {} THEN 0
    ELSE LET x == CHOOSE y \in S : TRUE
         IN  f[x] + SumOf(f, S \ {x})

\* the points of a title in movie_points, 0 when absent
PointsIn(mp, title) ==
    LET ks == {k \in 1..Len(mp) : mp[k].title = title}
    IN  SumOf([k \in ks |-> mp[k].points], ks)

TitlesIn(mp) == {mp[k].title : k \in 1..Len(mp)}

TitlesOf(ranked) == {ranked[r].title : r \in 1..Len(ranked)}

\* the ranks at which title stands in a ranked list
RanksOf(ranked, title) == {r \in 1..Len(ranked) : ranked[r].title = title}

\* a step of main that folds the non-empty result of task i
FoldsTask(i) ==
    /\ mainpc = "collect"
    /\ completed # <<>>
    /\ Head(completed) = i
    /\ nfolded' = nfolded + 1
    /\ task[i].ranked # <<>>

\* C8: folding one successful result adds 9 - r points to the title at each
\* rank r of it and the unit's label to that title's set, and changes no
\* other title.
C8_FoldAddsRankPoints ==
    [][\A i \in Tasks :
         FoldsTask(i) =>
           LET ranked == task[i].ranked
               region == cities[i].RegionName
           IN  /\ Len(ranked) <= 8
               /\ \A r \in 1..Len(ranked) : ranked[r].key = <<"rank", r>>
               /\ TitlesIn(movie_points') = TitlesIn(movie_points) \cup TitlesOf(ranked)
               /\ DOMAIN movie_city_count' = TitlesIn(movie_points')
               /\ \A title \in TitlesIn(movie_points') :
                    LET rs == RanksOf(ranked, title)
                    IN  /\ PointsIn(movie_points', title)
                             = PointsIn(movie_points, title)
                               + SumOf([r \in rs |-> 9 - r], rs)
                        /\ movie_city_count'[title]
                             = DictGet(movie_city_count, title, {})
                               \cup (IF rs = {} THEN {} ELSE {region})
       ]_vars

\* a list of eight ranks has been folded and a second unit after it
C8_Witness ==
    /\ nfolded = 2
    /\ \E region \in DOMAIN all_rankings : Len(all_rankings[region]) = 8
    /\ Cardinality(DOMAIN all_rankings) = 2

EndToEnd == Len(cities) = 3

\* C9 as stated: with A listing Alpha, Beta, B listing Beta, Alpha and C failing every
\* attempt, the run ends with the leaderboard Alpha, Beta, 12 points and 2
\* units each, and exactly one failure record, that of C.
C9_EndToEnd ==
    (EndToEnd /\ mainpc = "done") =>
        /\ top_movies = <<[title |-> Alpha, points |-> 12],
                          [title |-> Beta, points |-> 12]>>
        /\ Cardinality(movie_city_count[Alpha]) = 2
        /\ Cardinality(movie_city_count[Beta]) = 2
        /\ Len(failures) = 1
        /\ failures[1].code = "c1"

(***************************************************************************)
(* Properties of the aggregation, of clean_title and of bmshype.py         *)
(***************************************************************************)
\* the leaderboard of a run: title, points and number of contributing units
Leaderboard(run) ==
    LET top == TopMovies(run.acc.movie_points)
    IN  [k \in 1..Len(top) |->
            [title |-> top[k].title, points |-> top[k].points,
             units |-> Cardinality(run.acc.movie_city_count[top[k].title])]]

PointsMap(mp) == [title \in TitlesIn(mp) |-> PointsIn(mp, title)]

DistinctTotals(mp) ==
    \A j, k \in 1..Len(mp) : j # k => mp[j].points # mp[k].points

BothDone == RunDone(runA) /\ RunDone(runB)

\* C3 as stated: whatever the order in which the same unit results are
\* folded, the leaderboard is identical, ties included.
C3_SameLeaderboardAnyOrder ==
    BothDone => Leaderboard(runA) = Leaderboard(runB)

\* C3 amended: whatever the order in which the same unit results are folded,
\* every title ends with the same point total and the same set of
\* contributing units, and the leaderboard is identical whenever no two
\* titles have equal totals.
C3_SameTotalsAnyOrder ==
    BothDone =>
        /\ PointsMap(runA.acc.movie_points) = PointsMap(runB.acc.movie_points)
        /\ runA.acc.movie_city_count = runB.acc.movie_city_count
        /\ DistinctTotals(runA.acc.movie_points)
              => Leaderboard(runA) = Leaderboard(runB)

\* two results with titles in common, folded in opposite orders, no tie
C3_Witness ==
    /\ BothDone
    /\ Len(units) = 2
    /\ runA.order # runB.order
    /\ units[1].ranked # <<>> /\ units[2].ranked # <<>>
    /\ Len(runA.acc.movie_points) = 2
    /\ runA.acc.movie_points # runB.acc.movie_points
    /\ DistinctTotals(runA.acc.movie_points)

\* C10: clean_title applied to its own result changes nothing, and two titles
\* that differ only in their trailing parenthetical qualifier get one key.
C10_CleanTitleIdempotent ==
    tpc = "twice" =>
        /\ tTwice = tOut
        /\ SameButQualifier(tIn[1], tIn[2]) => tOut[1] = tOut[2]

\* C7: no two calls in flight at the same time go through the same session.
C7_SessionNotShared ==
    \A i, j \in 1..Len(h_task) :
        (i # j /\ h_task[i].pc = "inflight" /\ h_task[j].pc = "inflight")
        => h_task[i].session # h_task[j].session

\* C9 amended: in that run both titles end with 15 points (8 + 7) and 2
\* units; the title ranked first by the unit folded first leads the
\* leaderboard; the failure log holds records of C only: one when C's last
\* attempt raised, none when it was answered with a block signal and the
\* loop ran out.
C9_EndToEndByFoldOrder ==
    (EndToEnd /\ mainpc = "done") =>
        /\ Len(top_movies) = 2
        /\ {top_movies[1].title, top_movies[2].title} = {Alpha, Beta}
        /\ top_movies[1].points = 15 /\ top_movies[2].points = 15
        /\ top_movies[1].title
             = IF task[1].foldedAt < task[2].foldedAt THEN Alpha ELSE Beta
        /\ Cardinality(movie_city_count[Alpha]) = 2
        /\ Cardinality(movie_city_count[Beta]) = 2
        /\ \A k \in 1..Len(failures) : failures[k].code = "c1"
        /\ Len(failures) = IF task[3].attempt = RETRY_LIMIT THEN 0 ELSE 1

\* the run has ended with B folded before A and C's failure recorded
C9_Witness ==
    /\ EndToEnd
    /\ mainpc = "done"
    /\ task[2].foldedAt < task[1].foldedAt
    /\ Len(failures) = 1

\* ---------------------------------------------------------------------
\* C11.  Every run of main ends with the leaderboard and the failure
\* count: a state of the run in which no step of main or of a worker is
\* left to take is the state after line 261 (mainpc = "done").  The run
\* graph is finite and acyclic, so under fair scheduling every run reaches
\* such a state.
C11_RunEndsWithReport ==
    (~ENABLED Next) => mainpc = "done"

\* ---------------------------------------------------------------------
\* C12.  Every fairly scheduled run of bmshype.py reaches the end of main
\* (line 158 and after: the leaderboard is built), whatever the units'
\* requests are answered with.
C12_EventuallyLeaderboard ==
    <>(h_pc = "done")

\* ---------------------------------------------------------------------
\* C13.  An attempt answered with a success status and a body that is no
\* JSON is handled as a block: when the loop goes on after it, the worker
\* has reset its identity, has slept the backoff of that attempt, and
\* holds another identity than the one the request was sent with.
C13_NotJsonHandledAsBlocked ==
    \A i \in Tasks :
        (task[i].last = "notjson" /\ task[i].pc = "attempt")
            => /\ task[i].resets >= 1
               /\ task[i].slept = Backoff(task[i].attempt - 1)
               /\ task[i].ident # task[i].reqIdent

\* ---------------------------------------------------------------------
\* C14.  After an attempt that was answered 403 or 429, the worker has
\* slept exactly 2^a, a being the 0-based index of that attempt (the
\* number of requests issued before it), whatever the unit, the thread and
\* what happened before.
C14_BackoffIsPowerOfTwo ==
    \A i \in Tasks :
        task[i].last = "blocked" => task[i].slept = 2 ^ (task[i].nreq - 1)

\* ---------------------------------------------------------------------
\* C15.  The leaderboard lists entries of movie_points in descending order
\* of points, entries with equal points in the order in which their titles
\* entered movie_points (the order of first folding), and holds the first
\* TopN of that order: all entries when there are at most TopN, else TopN
\* entries that each come before every entry left out.
PosIn(mp, e) == CHOOSE k \in 1..Len(mp) : mp[k].title = e.title

RanksBefore(mp, x, y) ==
    \/ x.points > y.points
    \/ x.points = y.points /\ PosIn(mp, x) < PosIn(mp, y)

EntriesOf(s) == {s[k] : k \in 1..Len(s)}

C15_LeaderboardOrder ==
    bpc = "built" =>
        /\ Len(bOut) <= TopN
        /\ Len(bOut) = IF Len(bIn) <= TopN THEN Len(bIn) ELSE TopN
        /\ EntriesOf(bOut) \subseteq EntriesOf(bIn)
        /\ \A j, k \in 1..Len(bOut) : j < k => RanksBefore(bIn, bOut[j], bOut[k])
        /\ \A x \in EntriesOf(bIn) \ EntriesOf(bOut) :
             \A j \in 1..Len(bOut) : RanksBefore(bIn, bOut[j], x)

\* more than TopN titles, with a tie inside the leaderboard and a tie
\* between its last entry and an entry that is cut off
C15_Witness ==
    /\ bpc = "built"
    /\ Len(bIn) > TopN
    /\ Len(bOut) = TopN
    /\ \E j \in 1..(Len(bOut) - 1) :
         bOut[j].points = bOut[j + 1].points /\ bOut[1].points > bOut[j].points
    /\ \E x \in EntriesOf(bIn) \ EntriesOf(bOut) :
         x.points = bOut[Len(bOut)].points

\* ---------------------------------------------------------------------
\* C16.  A JSON answer with a success status that has no "hits", or no hit
\* of type MT with a TITLE, ends the call on that attempt with an empty
\* ranking: the task is done, no failure record names the unit, no further
\* request is issued for it, and folding its result changes neither the
\* points, nor the units per title, nor all_rankings.
EmptyPayload(data) ==
    \/ "hits" \notin DOMAIN data
    \/ \A k \in 1..Len(data.hits) :
         ~("TYPE" \in DOMAIN data.hits[k] /\ data.hits[k].TYPE = "MT"
           /\ "TITLE" \in DOMAIN data.hits[k])

EmptyAnswer(i) == task[i].last = "ok" /\ EmptyPayload(task[i].got)

C16_EmptyAnswerIsEmptyResult ==
    /\ [](\A i \in Tasks :
            EmptyAnswer(i) => /\ Returned(i)
                              /\ task[i].ranked = <<>>
                              /\ FailuresOf(i) = {})
    /\ [][\A i \in Tasks :
            /\ (task[i].pc = "attempt" /\ task'[i].last = "ok"
                /\ task'[i].nreq # task[i].nreq
                /\ EmptyPayload(task'[i].got))
                   => /\ task'[i].nreq = task[i].nreq + 1
                      /\ task'[i].pc = "done"
                      /\ failures' = failures
            /\ EmptyAnswer(i)
                   => /\ task'[i].nreq = task[i].nreq
                      /\ (nfolded' = nfolded + 1 /\ Head(completed) = i)
                            => /\ movie_points' = movie_points
                               /\ movie_city_count' = movie_city_count
                               /\ all_rankings' = all_rankings
       ]_vars

\* an empty answer on a second attempt has been folded, after another
\* unit's ranking
C16_Witness ==
    \E i \in Tasks :
        /\ EmptyAnswer(i)
        /\ task[i].nreq = 2
        /\ task[i].foldedAt = 2
        /\ movie_points # <<>>

\* ---------------------------------------------------------------------
\* C17.  No unit is requested more than RETRY_LIMIT times, and an attempt
\* that succeeds is the unit's last request: the call has returned with
\* the ranking parsed from that answer, and the count of requests for the
\* unit never changes afterwards.
C17_BoundedRequests ==
    /\ [](\A i \in Tasks :
            /\ task[i].nreq <= RETRY_LIMIT
            /\ task[i].last = "ok"
                 => Returned(i) /\ task[i].ranked = ParseRanked(task[i].got))
    /\ [][\A i \in Tasks :
            task[i].last = "ok" => task'[i].nreq = task[i].nreq]_vars

\* a unit that succeeded on its last allowed attempt, after a block and an
\* exception, has been folded while another unit is still being requested
C17_Witness ==
    \E i, j \in Tasks :
        /\ task[i].last = "ok"
        /\ task[i].nreq = RETRY_LIMIT
        /\ task[i].blocks = 1
        /\ task[i].foldedAt > 0
        /\ task[j].pc = "attempt"
        /\ task[j].nreq > 0

\* ---------------------------------------------------------------------
\* C18.  No failure record is lost: a worker that is at failures.append
\* holds lock, so at most one worker is there at a time; every append adds
\* one entry and changes no other; when main counts the failures every
\* task has finished and nobody holds lock, and the count it writes is the
\* number of appends that were executed, one per unit whose last attempt
\* raised.
Appending(t) == thr[t] # 0 /\ task[thr[t]].pc = "append"

\* the unit's call went through the append of lines 206-212
Appended(i) ==
    /\ task[i].pc = "done"
    /\ task[i].attempt = RETRY_LIMIT - 1
    /\ task[i].last \notin {"ok", "none"}

C18_NoFailureRecordLost ==
    /\ [](/\ \A t \in Threads : Appending(t) => lock = t
          /\ \A t, u \in Threads : Appending(t) /\ Appending(u) => t = u
          /\ Len(failures) = Cardinality({i \in Tasks : Appended(i)})
          /\ \A i \in Tasks : Appended(i) => Cardinality(FailuresOf(i)) = 1
          /\ mainpc \in {"report", "done"}
               => /\ \A i \in Tasks : task[i].pc = "done"
                  /\ \A t \in Threads : thr[t] = 0
                  /\ lock = 0
          /\ mainpc = "done" => output.failed_cities = Len(failures))
    /\ [][/\ Len(failures') >= Len(failures)
          /\ SubSeq(failures', 1, Len(failures)) = failures
          /\ Len(failures') <= Len(failures) + 1
          /\ Len(failures') = Len(failures) + 1
               => \E t \in Threads : Appending(t) /\ lock = t /\ lock' = 0
       ]_vars

\* both units of a run failed their last attempts, each worker appended
\* its record, and main has counted the two
C18_Witness ==
    /\ mainpc = "done"
    /\ Len(failures) = 2
    /\ output.failed_cities = 2
    /\ \A i \in Tasks : Appended(i)

\* ---------------------------------------------------------------------
\* C19.  The ranking a call returns names no title twice, given that the
\* endpoint listed no title twice: folding it adds to a title at one rank
\* only, at most RankCutoff points.
RECURSIVE RawTitles(_)
\* the TITLE fields of the hits that the filter of lines 195-199 lets pass
RawTitles(hits) ==
    IF hits = <<>> THEN <<>>
    ELSE LET hit == Head(hits)
         IN  IF DictGet(hit, "TYPE", None) = "MT" /\ "TITLE" \in DOMAIN hit
             THEN <<hit["TITLE"]>> \o RawTitles(Tail(hits))
             ELSE RawTitles(Tail(hits))

Distinct(s) == \A j, k \in 1..Len(s) : s[j] = s[k] => j = k

C19_NoTitleTwice ==
    \A i \in Tasks :
        (Returned(i) /\ task[i].last = "ok"
         /\ Distinct(RawTitles(DictGet(task[i].got, "hits", <<>>))))
            => /\ Distinct([r \in 1..Len(task[i].ranked) |-> task[i].ranked[r].title])
               /\ \A title \in TitlesOf(task[i].ranked) :
                    SumOf([r \in RanksOf(task[i].ranked, title) |-> Points(r)],
                          RanksOf(task[i].ranked, title)) <= RankCutoff

\* ---------------------------------------------------------------------
\* C20.  bmshype.py over any number of restarts: no region that the
\* checkpoint file holds is being fetched; the regions the file holds only
\* grow; and when main ends, every title's points are the rank points of
\* every region of all_rankings, each counted once.
Checkpointed == IF h_file_valid THEN OKeys(h_file) ELSE {}

C20_NotFetchedAgain ==
    \A i \in 1..Len(h_task) :
        h_task[i].pc = "inflight"
            => h_pending_cities[i].RegionName \notin Checkpointed

C20_CheckpointGrows == Checkpointed \subseteq Checkpointed'

RegionPoints(ranked, title) ==
    SumOf([r \in RanksOf(ranked, title) |-> PointsBase - r], RanksOf(ranked, title))

C20_EachRegionOnce ==
    h_pc = "done" =>
        \A title \in TitlesIn(h_movie_points)
                     \cup UNION {TitlesOf(h_all_rankings[k].value) :
                                   k \in 1..Len(h_all_rankings)} :
            PointsIn(h_movie_points, title)
                = SumOf([k \in 1..Len(h_all_rankings) |->
                           RegionPoints(h_all_rankings[k].value, title)],
                        1..Len(h_all_rankings))

C20_CheckpointAcrossRestarts ==
    /\ [](C20_NotFetchedAgain /\ C20_EachRegionOnce)
    /\ [][C20_CheckpointGrows]_vars

====
